---- MODULE Spec2Model ----
(***************************************************************************)
(* Model of the analysis and collection scripts of ML-catalogue            *)
(* (literature-mining/scripts).                                            *)
(*                                                                         *)
(*   SpecDedup    dedup_keep_smallest, called on a loaded mapping and then *)
(*                once more on the mapping it returned                     *)
(*   SpecExtract  extract_id of the two overlap scripts, on one record     *)
(*   SpecNorm     norm_doi applied to a string and to its own result       *)
(*   SpecPairs    build_pair_table, build_overlap_matrix, list_top_overlaps*)
(*   SpecLoad     load_all_records and main of the overlap scripts,        *)
(*                analyze_folder of the summary tool                       *)
(*   SpecRun      main of the four collection scripts                      *)
(***************************************************************************)
EXTENDS Integers, Sequences, FiniteSets, TLC

(* ------------------------------ bounds --------------------------------- *)

\* number of query groups (labels) a mapping may hold
MaxGroups == 2
\* number of distinct record identifiers
MaxIds == 3
\* number of fragments an input string of norm_doi is made of
MaxFrags == 3
\* number of groups in a mapping handed to the overlap tables
MaxPairGroups == 3
\* number of distinct identifiers in such a mapping
MaxPairIds == 2
\* largest n handed to list_top_overlaps
MaxTop == 2
MaxFiles == 1
MaxLines == 2
MaxQueries == 2
MaxDocs == 3
MaxRetries == 2
\* the collectors flush every 1000 documents and look at the quota every 500:
\* the model scales both down
BATCH_SIZE == 2
QuotaEvery == 2

(* ---------------------------- value domains ---------------------------- *)

\* group labels, in ascending lexicographic order
LabelNames == <<"A", "B", "C", "D">>
\* record identifiers (normalized DOIs)
IdNames == <<"10.1/x", "10.1/y", "10.1/z", "10.1/w">>

Labels == {LabelNames[i] : i \in 1..MaxGroups}
Ids == {IdNames[i] : i \in 1..MaxIds}

Range(s) == {s[i] : i \in 1..Len(s)}

RECURSIVE Perms(_)
\* all orders in which the elements of a finite set can be iterated
Perms(S) ==
    IF S = {} THEN {<<>>}
    ELSE UNION {{<<x>> \o s : s \in Perms(S \ {x})} : x \in S}

\* position of a label in lexicographic order (Python's str comparison)
LabelRank(q) == CHOOSE i \in 1..Len(LabelNames) : LabelNames[i] = q

\* Python's comparison of the tuples (len(out[q]), q)
KeyLess(a, b) == \/ a[1] < b[1]
                 \/ a[1] = b[1] /\ LabelRank(a[2]) < LabelRank(b[2])

RECURSIVE SumSizes(_, _)
\* sum(len(s) for s in m.values()), over the labels in Q
SumSizes(m, Q) ==
    IF Q = {} THEN 0
    ELSE LET q == CHOOSE p \in Q : TRUE
         IN Cardinality(m[q]) + SumSizes(m, Q \ {q})

(* ------------------------------ variables ------------------------------ *)

VARIABLES
    heap,      \* the set objects: reference -> set of identifiers
    keys,      \* insertion order of the dict q2ids
    q2ids,     \* the argument of dedup_keep_smallest: label -> reference
    rid2qs,    \* the ordered dict rid -> list of labels, as a sequence of entries
    out,       \* the dict being returned: label -> reference
    removed,   \* the removal counter
    pos,       \* next entry of rid2qs the loop will visit
    pc,        \* position inside dedup_keep_smallest
    call,      \* 1: the call of main; 2: the call on the returned mapping
    inp,       \* the argument's sets as they were when the call started
    first      \* what call 1 returned (sets and removal count)

dedupVars == <<heap, keys, q2ids, rid2qs, out, removed, pos, pc, call, inp, first>>

VARIABLES
    rec,       \* the record handed to extract_id
    extracted, \* what extract_id returned (rid in load_all_records)
    epc,       \* "start", or the script whose extract_id has run
    s0,        \* the argument of the first norm_doi call
    n1,        \* norm_doi(s0)
    n2,        \* norm_doi(n1)
    nfun,      \* the script whose norm_doi is applied
    npc        \* number of norm_doi calls made

identVars == <<rec, extracted, epc, s0, n1, n2, nfun, npc>>

VARIABLES
    pq2ids,    \* the mapping handed to the overlap tables: label -> set
    pairs,     \* what build_pair_table returned: raised, or the rows
    matrix,    \* what build_overlap_matrix returned
    top,       \* what list_top_overlaps returned
    topn,      \* the argument n of list_top_overlaps
    ppc        \* position in the overlap part of main

pairVars == <<pq2ids, pairs, matrix, top, topn, ppc>>

VARIABLES
    tool,          \* the script that runs: its loader and main
    nfiles,        \* matching files not yet read (top-level ones, for the summary tool)
    nsub,          \* matching files below the top level (summary tool's rglob)
    cur,           \* fp: the file being read
    nlines,        \* lines of the file not yet read
    line,          \* what the line just read was: blank, malformed, record
    records,       \* records of the file not yet grouped
    lq2ids,        \* q2ids of load_all_records: label -> set of identifiers
    n_records,     \* analyze_folder's counters
    n_empty_refs,
    n_empty_abs,
    total_refs,
    ref_counts,
    lpc,           \* position in main
    exc,           \* the exception that ended the run, if any
    exitcode,      \* the exit status, -1 while running
    stderr,        \* what was printed on the error stream
    outdir,        \* OUT_DIR exists
    written,       \* the output files written
    hist           \* history: lines read by kind, records dropped

loadVars == <<tool, nfiles, nsub, cur, nlines, line, records, lq2ids,
              n_records, n_empty_refs, n_empty_abs, total_refs, ref_counts,
              lpc, exc, exitcode, stderr, outdir, written, hist>>

\* the variables of the components modelled after the overlap tables
VARIABLES
    script,        \* the collection script that runs
    nqueries,      \* len(queries)
    retries,       \* REF_RETRIES
    qi,            \* position of q in queries, from 1
    summary,       \* the list summary: the queries appended, by position
    errlog,        \* the diagnostics printed on the error stream
    rpc,           \* position in main
    rexc,          \* the exception that ended the run, if any
    rexit,         \* the exit status, -1 while running
    ndocs,         \* len(results) of the query
    di,            \* i: position of the next document of results, from 0
    eid,           \* whether the eid of the last document is truthy
    full_doc,      \* the local full_doc: unbound, None, or a retrieved document
    attempts,      \* AbstractRetrieval calls made for the last document
    outcomes,      \* what the API answers to the successive calls for it
    drec,          \* d: the record built for the last document
    buffer,        \* buffer (streaming) or records (the other scripts)
    nwritten,      \* written: documents flushed to out_file
    outfile,       \* the lines of out_file
    summary_file   \* the queries listed in _run_summary.json, once written

runVars == <<script, nqueries, retries, qi, summary, errlog, rpc, rexc, rexit,
             ndocs, di, eid, full_doc, attempts, outcomes, drec, buffer, nwritten,
             outfile, summary_file>>

VARIABLES
    sraw,          \* q2ids_raw: the loaded mapping
    sdedup,        \* q2ids_dedup: what dedup_keep_smallest returned for it
    sremoved,      \* the removal count it returned
    sizes,         \* the rows of the before/after table
    spc            \* position in main

sizeVars == <<sraw, sdedup, sremoved, sizes, spc>>

\* the variables of the components modelled after the loaders
afterLoadVars == <<runVars, sizeVars>>
afterPairVars == <<loadVars, afterLoadVars>>

\* the variables of the components modelled after the first three
laterVars == <<pairVars, afterPairVars>>

vars == <<dedupVars, identVars, laterVars>>

(* ----------------------------- Python values --------------------------- *)

\* A str is a sequence of one-character strings; None is Python's None.
None == [t |-> "None", v |-> <<>>]
Str(s) == [t |-> "str", v |-> s]

\* bool(x) for None and str
Truthy(x) == x.t = "str" /\ x.v # <<>>

\* Python's `a or b`
Or(a, b) == IF Truthy(a) THEN a ELSE b

UpperChars == <<"A", "B", "C", "D", "E", "F", "G", "H", "I", "J", "K", "L", "M",
                "N", "O", "P", "Q", "R", "S", "T", "U", "V", "W", "X", "Y", "Z">>
LowerChars == <<"a", "b", "c", "d", "e", "f", "g", "h", "i", "j", "k", "l", "m",
                "n", "o", "p", "q", "r", "s", "t", "u", "v", "w", "x", "y", "z">>
Whitespace == {" ", "\t", "\n", "\r"}

HttpsPrefix == <<"h", "t", "t", "p", "s", ":", "/", "/",
                 "d", "o", "i", ".", "o", "r", "g", "/">>
HttpPrefix == <<"h", "t", "t", "p", ":", "/", "/",
                "d", "o", "i", ".", "o", "r", "g", "/">>

\* str.lower(), on one character
LowerChar(c) ==
    IF \E i \in 1..Len(UpperChars) : UpperChars[i] = c
    THEN LowerChars[CHOOSE i \in 1..Len(UpperChars) : UpperChars[i] = c]
    ELSE c

\* str.lower()
Lower(s) == [i \in 1..Len(s) |-> LowerChar(s[i])]

RECURSIVE LStrip(_)
LStrip(s) == IF s # <<>> /\ Head(s) \in Whitespace THEN LStrip(Tail(s)) ELSE s

RECURSIVE RStrip(_)
RStrip(s) ==
    IF s # <<>> /\ s[Len(s)] \in Whitespace
    THEN RStrip(SubSeq(s, 1, Len(s) - 1))
    ELSE s

\* str.strip()
Strip(s) == RStrip(LStrip(s))

StartsWith(s, old) == Len(s) >= Len(old) /\ SubSeq(s, 1, Len(old)) = old

RECURSIVE Replace(_, _)
\* str.replace(old, ""): the non-overlapping occurrences of old, found from
\* left to right in the original string, are removed
Replace(s, old) ==
    IF Len(s) < Len(old) THEN s
    ELSE IF StartsWith(s, old) THEN Replace(SubSeq(s, Len(old) + 1, Len(s)), old)
    ELSE <<Head(s)>> \o Replace(Tail(s), old)

\* x.strip().lower(), then both prefixes replaced by ""
Normalized(s) == Replace(Replace(Lower(Strip(s)), HttpsPrefix), HttpPrefix)

\* norm_doi of analysis/analyze_overlap.py and query_analyses/analyze_overlap.py
norm_doi(x) == IF ~Truthy(x) THEN None ELSE Str(Normalized(x.v))

\* norm_doi of queries/summary_refs_abs.py, for an argument that is None or a str
norm_doi_summary(value) ==
    IF ~Truthy(value) THEN Str(<<>>) ELSE Str(Normalized(value.v))

\* rec.get("doi") or rec.get("dc:identifier") or rec.get("prism:doi")
DoiField(r) == Or(Or(r.doi, r.dc_identifier), r.prism_doi)

\* extract_id of query_analyses/analyze_overlap.py
extract_id_query_analyses(r) == norm_doi(DoiField(r))

\* extract_id of analysis/analyze_overlap.py
extract_id_analysis(r) == Or(r.eid, norm_doi(DoiField(r)))

(* ------------------- a component that is not running ----------------- *)

IdentIdle ==
    /\ rec = [doi |-> None, dc_identifier |-> None, prism_doi |-> None, eid |-> None]
    /\ extracted = None
    /\ epc = "idle"
    /\ s0 = None
    /\ n1 = None
    /\ n2 = None
    /\ nfun = "none"
    /\ npc = 0

DedupIdle ==
    /\ heap = <<>>
    /\ keys = <<>>
    /\ q2ids = <<>>
    /\ inp = <<>>
    /\ rid2qs = <<>>
    /\ out = <<>>
    /\ removed = 0
    /\ pos = 1
    /\ pc = "idle"
    /\ call = 0
    /\ first = [out |-> <<>>, removed |-> 0]

PairIdle ==
    /\ pq2ids = <<>>
    /\ pairs = [raised |-> FALSE, rows |-> <<>>]
    /\ matrix = [index |-> <<>>, columns |-> <<>>, data |-> <<>>]
    /\ top = <<>>
    /\ topn = 0
    /\ ppc = "idle"

NoFile == [suffix |-> "none", parent |-> <<>>, stem |-> <<>>]
NoLine == "none"
NoHist == [blank |-> 0, malformed |-> 0, record |-> 0, dropped |-> 0]

LoadIdle ==
    /\ tool = "none"
    /\ nfiles = 0
    /\ nsub = 0
    /\ cur = NoFile
    /\ nlines = 0
    /\ line = NoLine
    /\ records = <<>>
    /\ lq2ids = <<>>
    /\ n_records = 0
    /\ n_empty_refs = 0
    /\ n_empty_abs = 0
    /\ total_refs = 0
    /\ ref_counts = <<>>
    /\ lpc = "idle"
    /\ exc = "none"
    /\ exitcode = -1
    /\ stderr = {}
    /\ outdir = FALSE
    /\ written = {}
    /\ hist = NoHist

NoDoc == [title |-> -1, eid |-> FALSE, abstract |-> "absent", ref_docs |-> "absent"]
Unwritten == [written |-> FALSE, queries |-> <<>>]

RunIdle ==
    /\ script = "none"
    /\ nqueries = 0
    /\ retries = 0
    /\ qi = 0
    /\ summary = <<>>
    /\ errlog = <<>>
    /\ rpc = "idle"
    /\ rexc = "none"
    /\ rexit = -1
    /\ ndocs = 0
    /\ di = 0
    /\ eid = FALSE
    /\ full_doc = "unbound"
    /\ attempts = 0
    /\ outcomes = <<>>
    /\ drec = NoDoc
    /\ buffer = <<>>
    /\ nwritten = 0
    /\ outfile = <<>>
    /\ summary_file = Unwritten

SizeIdle ==
    /\ sraw = <<>>
    /\ sdedup = <<>>
    /\ sremoved = 0
    /\ sizes = <<>>
    /\ spc = "idle"

AfterLoadIdle == RunIdle /\ SizeIdle
AfterPairIdle == LoadIdle /\ AfterLoadIdle

LaterIdle == PairIdle /\ AfterPairIdle

(* ------------------------- dedup_keep_smallest ------------------------- *)

\* the sets a dict of references denotes
Deref(h, d) == [q \in DOMAIN d |-> h[d[q]]]

\* rid2qs[rid]: the labels whose set holds rid, in the dict's iteration order
Holders(ks, m, rid) == SelectSeq(ks, LAMBDA q : rid \in m[q])

RECURSIVE RidOrdersFrom(_, _, _, _)
\* the insertion orders of the identifiers first seen in groups i, i+1, ...
RidOrdersFrom(ks, m, i, seen) ==
    IF i > Len(ks) THEN {<<>>}
    ELSE LET new == m[ks[i]] \ seen
         IN {a \o b : a \in Perms(new),
                      b \in RidOrdersFrom(ks, m, i + 1, seen \cup new)}

\* The insertion orders rid2qs can have: groups are visited in the dict's
\* order, the identifiers of one set in an arbitrary (hash) order.
RidOrders(ks, m) == RidOrdersFrom(ks, m, 1, {})

\* lines 135-138, for one iteration order
BuildRid2qs(ks, m, order) ==
    [i \in 1..Len(order) |-> [rid |-> order[i], qs |-> Holders(ks, m, order[i])]]

\* line 144: the entry is processed only when the identifier is shared
IsSharedTwoPlus(qs) == Len(qs) > 2
IsShared(qs) == Len(qs) > 1

\* line 148: keep = min(qs, key=lambda q: (len(out[q]), q))
Keep(m, qs) == CHOOSE q \in Range(qs) :
    \A p \in Range(qs) \ {q} :
        KeyLess(<<Cardinality(m[q]), q>>, <<Cardinality(m[p]), p>>)

\* lines 150-151: the groups the identifier is removed from
ToRemoveAll(m, rid, qs) == {q \in Range(qs) : rid \in m[q]}
ToRemove(m, rid, qs) == {q \in Range(qs) : q # Keep(m, qs) /\ rid \in m[q]}

\* line 153: what one entry adds to the counter
RemovedDeltaAllHolders(m, rid, qs) == Len(qs)
RemovedDelta(m, rid, qs) == Cardinality(ToRemove(m, rid, qs))

\* lines 144-153: the loop body for one entry, on the sets out denotes
LoopBody(m, n, rid, qs) ==
    IF ~IsShared(qs)
    THEN [out |-> m, removed |-> n]
    ELSE [out |-> [q \in DOMAIN m |->
                      IF q \in ToRemove(m, rid, qs) THEN m[q] \ {rid} ELSE m[q]],
          removed |-> n + RemovedDelta(m, rid, qs)]

\* lines 144-145: `continue` goes on with the next entry
NextPosBreak(qs, p, n) == IF Len(qs) <= 1 THEN n + 1 ELSE p + 1
NextPos(qs, p, n) == p + 1

RECURSIVE RunLoop(_, _, _, _)
\* lines 143-153: the whole loop over the entries from position p on
RunLoop(m, n, entries, p) ==
    IF p > Len(entries) THEN [out |-> m, removed |-> n]
    ELSE LET r == LoopBody(m, n, entries[p].rid, entries[p].qs)
         IN RunLoop(r.out, r.removed, entries, NextPos(entries[p].qs, p, Len(entries)))

\* line 140: set(ids) is a new set object with the same members
NewRefShared(c, q) == <<c - 1, q>>
NewRef(c, q) == <<c, q>>
CopySetEmpty(ids) == {}
CopySet(ids) == ids

\* every insertion order of at most MaxGroups distinct labels
KeyOrders == UNION {Perms(Q) : Q \in SUBSET Labels}

InitDedup ==
    /\ keys \in KeyOrders
    /\ q2ids = [q \in Range(keys) |-> <<0, q>>]
    \* load_all_records creates a group only when it adds an identifier to it
    /\ heap \in [{<<0, q>> : q \in Range(keys)} -> (SUBSET Ids) \ {{}}]
    /\ inp = [q \in Range(keys) |-> heap[<<0, q>>]]
    /\ rid2qs = <<>>
    /\ out = <<>>
    /\ removed = 0
    /\ pos = 1
    /\ pc = "index"
    /\ call = 1
    /\ first = [out |-> <<>>, removed |-> 0]
    /\ IdentIdle
    /\ LaterIdle

\* lines 135-138: build rid2qs
BuildIndex ==
    /\ pc = "index"
    /\ \E order \in RidOrders(keys, Deref(heap, q2ids)) :
           rid2qs' = BuildRid2qs(keys, Deref(heap, q2ids), order)
    /\ pc' = "copy"
    /\ UNCHANGED <<heap, keys, q2ids, out, removed, pos, call, inp, first, identVars, laterVars>>

\* lines 140-142: out = {q: set(ids) ...}; removed = 0
CopyOut ==
    /\ pc = "copy"
    /\ out' = [q \in DOMAIN q2ids |-> NewRef(call, q)]
    /\ heap' = [r \in DOMAIN heap \cup {NewRef(call, q) : q \in DOMAIN q2ids} |->
                   IF \E q \in DOMAIN q2ids : r = NewRef(call, q)
                   THEN CopySet(heap[q2ids[r[2]]])
                   ELSE heap[r]]
    /\ removed' = 0
    /\ pos' = 1
    /\ pc' = "loop"
    /\ UNCHANGED <<keys, q2ids, rid2qs, call, inp, first, identVars, laterVars>>

\* lines 143-153: one iteration of `for rid, qs in rid2qs.items()`
LoopIter ==
    /\ pc = "loop"
    /\ pos <= Len(rid2qs)
    /\ LET e == rid2qs[pos]
           r == LoopBody(Deref(heap, out), removed, e.rid, e.qs)
       IN /\ heap' = [x \in DOMAIN heap |->
                         IF \E q \in DOMAIN out : out[q] = x
                         THEN r.out[x[2]]
                         ELSE heap[x]]
          /\ removed' = r.removed
          /\ pos' = NextPos(e.qs, pos, Len(rid2qs))
    /\ UNCHANGED <<keys, q2ids, rid2qs, out, pc, call, inp, first, identVars, laterVars>>

\* line 155: return out, removed
Return ==
    /\ pc = "loop"
    /\ pos > Len(rid2qs)
    /\ pc' = "done"
    /\ UNCHANGED <<heap, keys, q2ids, rid2qs, out, removed, pos, call, inp, first, identVars, laterVars>>

\* dedup_keep_smallest applied to the mapping the first call returned
Reapply ==
    /\ pc = "done"
    /\ call = 1
    /\ first' = [out |-> Deref(heap, out), removed |-> removed]
    /\ q2ids' = out
    /\ inp' = Deref(heap, out)
    /\ call' = 2
    /\ rid2qs' = <<>>
    /\ out' = <<>>
    /\ removed' = 0
    /\ pos' = 1
    /\ pc' = "index"
    /\ UNCHANGED <<heap, keys, identVars, laterVars>>

NextDedup == BuildIndex \/ CopyOut \/ LoopIter \/ Return \/ Reapply

SpecDedup == InitDedup /\ [][NextDedup]_vars

(* ------------------- claims about dedup_keep_smallest ------------------- *)

\* the sets the returned dict denotes
OutSets == Deref(heap, out)

\* the labels whose input set holds rid
InputHolders(rid) == {q \in DOMAIN inp : rid \in inp[q]}

\* the identifiers of the input mapping
InputIds == UNION {inp[q] : q \in DOMAIN inp}

\* the call of main has returned
Returned1 == pc = "done" /\ call = 1

\* C1: in the returned mapping no identifier is a member of two different
\* groups.
C1_AtMostOneGroup ==
    pc = "done" =>
        \A q1 \in DOMAIN out : \A q2 \in DOMAIN out \ {q1} :
            OutSets[q1] \cap OutSets[q2] = {}

\* the call returned for an input in which some identifier was shared
C1_Witness ==
    /\ Returned1
    /\ \E rid \in InputIds : Cardinality(InputHolders(rid)) >= 2
    /\ \E q \in DOMAIN out : OutSets[q] # inp[q]

\* C2: an identifier shared by two or more input groups ends in the group
\* that is the minimum by (size in the input mapping, label) among the input
\* groups that held it.
C2_OwnerIsInputMinimum ==
    Returned1 =>
        \A rid \in InputIds :
            Cardinality(InputHolders(rid)) >= 2 =>
                \A q \in DOMAIN out :
                    rid \in OutSets[q] =>
                        \A p \in InputHolders(rid) \ {q} :
                            KeyLess(<<Cardinality(inp[q]), q>>,
                                    <<Cardinality(inp[p]), p>>)

\* C3: for one input mapping the returned mapping and the removal count are
\* the same whatever the order in which the groups and the identifiers are
\* iterated.
C3_OrderIndependent ==
    Returned1 =>
        \A ks \in Perms(DOMAIN inp) : \A order \in RidOrders(ks, inp) :
            LET r == RunLoop([q \in DOMAIN inp |-> CopySet(inp[q])], 0,
                             BuildRid2qs(ks, inp, order), 1)
            IN r.out = OutSets /\ r.removed = removed

\* C4: dedup_keep_smallest applied to the mapping it returned gives the
\* identical mapping and a removal count of 0.
C4_Idempotent ==
    (pc = "done" /\ call = 2) =>
        /\ OutSets = first.out
        /\ removed = 0

\* the second call returned, and the first one had removed something
C4_Witness ==
    /\ pc = "done"
    /\ call = 2
    /\ first.removed > 0
    /\ Len(rid2qs) > 1

\* C5: the union of the returned groups equals the union of the input
\* groups, and every identifier of the input has exactly one holder.
C5_ConservesIds ==
    pc = "done" =>
        /\ UNION {OutSets[q] : q \in DOMAIN out} = InputIds
        /\ \A rid \in InputIds :
               Cardinality({q \in DOMAIN out : rid \in OutSets[q]}) = 1

\* the call returned after removing an identifier from two or more places
C5_Witness ==
    /\ Returned1
    /\ removed >= 2
    /\ UNION {OutSets[q] : q \in DOMAIN out} = Ids

\* C6: the returned mapping has the input's labels, every returned group is
\* a subset of the input group of the same label, and an identifier held by
\* exactly one input group is still in that group.
C6_NeverGrows ==
    pc = "done" =>
        /\ DOMAIN out = DOMAIN inp
        /\ \A q \in DOMAIN out : OutSets[q] \subseteq inp[q]
        /\ \A rid \in InputIds : \A q \in InputHolders(rid) :
               InputHolders(rid) = {q} => rid \in OutSets[q]

\* the call returned for an input with a shared and an unshared identifier
C6_Witness ==
    /\ Returned1
    /\ \E rid \in InputIds : Cardinality(InputHolders(rid)) = 1
    /\ \E q \in DOMAIN out : OutSets[q] # inp[q] /\ OutSets[q] # {}

\* the (identifier, group) memberships of a mapping
Memberships(m) == {<<rid, q>> \in Ids \X DOMAIN m : rid \in m[q]}

\* the example of the specification: A = {x, y}, B = {y, z}
ExampleAB == [q \in {"A", "B"} |->
                 IF q = "A" THEN {"10.1/x", "10.1/y"} ELSE {"10.1/y", "10.1/z"}]

\* C7: the removal count is the number of memberships of the input that are
\* absent from the output, which is the sum of the input sizes minus the sum
\* of the output sizes; for A = {x, y}, B = {y, z} it is 1, with A: 2, B: 1.
C7_RemovedCount ==
    pc = "done" =>
        /\ removed = Cardinality(Memberships(inp) \ Memberships(OutSets))
        /\ removed = SumSizes(inp, DOMAIN inp) - SumSizes(OutSets, DOMAIN out)
        /\ inp = ExampleAB =>
               /\ removed = 1
               /\ Cardinality(OutSets["A"]) = 2
               /\ Cardinality(OutSets["B"]) = 1

\* the call returned for the example mapping
C7_Witness == Returned1 /\ inp = ExampleAB /\ removed = 1

\* C8: the call leaves its argument unchanged: every input group holds the
\* identifiers it held when the call started, at every point of the call.
C8_InputUnchanged ==
    /\ DOMAIN q2ids = DOMAIN inp
    /\ Deref(heap, q2ids) = inp

\* the call of main returned a mapping that differs from its argument
C8_Witness ==
    /\ Returned1
    /\ removed > 0
    /\ OutSets # Deref(heap, q2ids)

(* ------------------------------ extract_id ----------------------------- *)

S_doi_upper == <<"1", "0", ".", "1", "/", "X">>
S_doi_lower == <<"1", "0", ".", "1", "/", "x">>
S_doi_other == <<"1", "0", ".", "1", "/", "y">>
S_eid == <<"2", "-", "s", "2", ".", "0", "-", "1">>
S_space == <<" ">>
HttpsUpper == <<"H", "T", "T", "P", "S", ":", "/", "/",
                "D", "O", "I", ".", "O", "R", "G", "/">>

\* the values a field of a record takes: absent, empty, or a string
DoiValues == {None, Str(<<>>), Str(S_doi_upper), Str(HttpsPrefix \o S_doi_other)}
EidValues == {None, Str(<<>>), Str(S_eid)}

Records == [doi : DoiValues, dc_identifier : DoiValues, prism_doi : DoiValues,
            eid : EidValues]

InitExtract ==
    /\ DedupIdle
    /\ LaterIdle
    /\ rec \in Records
    /\ extracted = None
    /\ epc = "start"
    /\ s0 = None
    /\ n1 = None
    /\ n2 = None
    /\ nfun = "none"
    /\ npc = 0

\* query_analyses/analyze_overlap.py: rid = extract_id(rec)
ExtractIdQueryAnalyses ==
    /\ epc = "start"
    /\ extracted' = extract_id_query_analyses(rec)
    /\ epc' = "query_analyses"
    /\ UNCHANGED <<rec, s0, n1, n2, nfun, npc, dedupVars, laterVars>>

\* analysis/analyze_overlap.py: rid = extract_id(rec)
ExtractIdAnalysis ==
    /\ epc = "start"
    /\ extracted' = extract_id_analysis(rec)
    /\ epc' = "analysis"
    /\ UNCHANGED <<rec, s0, n1, n2, nfun, npc, dedupVars, laterVars>>

NextExtract == ExtractIdQueryAnalyses \/ ExtractIdAnalysis

SpecExtract == InitExtract /\ [][NextExtract]_vars

(* ------------------------------- norm_doi ------------------------------ *)

\* the pieces the input strings are made of
Fragments == {HttpsPrefix, HttpsUpper, HttpPrefix, S_doi_upper, S_space, <<"h">>}

RECURSIVE Concats(_)
\* the strings made of at most n fragments
Concats(n) ==
    IF n = 0 THEN {<<>>}
    ELSE Concats(n - 1) \cup {a \o f : a \in Concats(n - 1), f \in Fragments}

NormInputs == {Str(s) : s \in Concats(MaxFrags)}

InitNorm ==
    /\ DedupIdle
    /\ LaterIdle
    /\ rec = [doi |-> None, dc_identifier |-> None, prism_doi |-> None, eid |-> None]
    /\ extracted = None
    /\ epc = "idle"
    /\ s0 \in NormInputs
    /\ n1 = None
    /\ n2 = None
    /\ nfun = "none"
    /\ npc = 0

\* norm_doi of the overlap scripts, applied to s0 and then to its own result
NormDoiOverlap ==
    /\ \/ npc = 0 /\ n1' = norm_doi(s0) /\ n2' = n2
       \/ npc = 1 /\ nfun = "overlap" /\ n2' = norm_doi(n1) /\ n1' = n1
    /\ nfun' = "overlap"
    /\ npc' = npc + 1
    /\ UNCHANGED <<rec, extracted, epc, s0, dedupVars, laterVars>>

\* norm_doi of summary_refs_abs.py, applied to s0 and then to its own result
NormDoiSummary ==
    /\ \/ npc = 0 /\ n1' = norm_doi_summary(s0) /\ n2' = n2
       \/ npc = 1 /\ nfun = "summary" /\ n2' = norm_doi_summary(n1) /\ n1' = n1
    /\ nfun' = "summary"
    /\ npc' = npc + 1
    /\ UNCHANGED <<rec, extracted, epc, s0, dedupVars, laterVars>>

NextNorm == NormDoiOverlap \/ NormDoiSummary

SpecNorm == InitNorm /\ [][NextNorm]_vars

(* --------------------- claims about the identifiers -------------------- *)

\* C9: the identifier of a record is the normalized DOI (doi, else
\* dc:identifier, else prism:doi) whenever a DOI is present, and the
\* alternate identifier eid only when no DOI is present.
C9_DoiBeforeAlternate ==
    epc \in {"query_analyses", "analysis"} =>
        /\ Truthy(DoiField(rec)) => extracted = norm_doi(DoiField(rec))
        /\ (Truthy(rec.eid) /\ extracted = rec.eid) =>
               (~Truthy(DoiField(rec)) \/ norm_doi(DoiField(rec)) = rec.eid)

\* C10: norm_doi applied to its own result returns it unchanged, and
\* HTTPS://DOI.ORG/10.1/X normalizes to 10.1/x.
C10_NormIdempotent ==
    /\ npc = 2 => n2 = n1
    /\ (npc >= 1 /\ s0 = Str(HttpsUpper \o S_doi_upper)) => n1 = Str(S_doi_lower)

(* ---------- build_pair_table, build_overlap_matrix, list_top_overlaps --- *)

PairLabels == {LabelNames[i] : i \in 1..MaxPairGroups}
PairIds == {IdNames[i] : i \in 1..MaxPairIds}

\* the mappings label -> set of identifiers, over every set of labels; the
\* functions take any dict[str, set], a group may be empty
PairMappings == UNION {[Q -> SUBSET PairIds] : Q \in SUBSET PairLabels}

RECURSIVE SortedLabels(_)
\* sorted(q2ids.keys())
SortedLabels(Q) ==
    IF Q = {} THEN <<>>
    ELSE LET lo == CHOOSE q \in Q : \A p \in Q : LabelRank(q) <= LabelRank(p)
         IN <<lo>> \o SortedLabels(Q \ {lo})

\* round(num / den, 6) in millionths, for den > 0: the nearest millionth,
\* a tie going to the even one
Round6(num, den) ==
    LET scaled == num * 1000000
        q == scaled \div den
        r == scaled % den
    IN IF 2 * r < den THEN q
       ELSE IF 2 * r > den THEN q + 1
       ELSE IF q % 2 = 0 THEN q ELSE q + 1

\* round(a / b, 6): a / b raises ZeroDivisionError when b is 0
Div6(a, b) ==
    IF b = 0 THEN [err |-> TRUE, val |-> 0]
    ELSE [err |-> FALSE, val |-> Round6(a, b)]

\* the float 0.0
Zero == [err |-> FALSE, val |-> 0]

\* jacc = inter / union if union else 0.0, rounded to 6 places
JaccardUnguarded(inter, union) == Div6(inter, union)
Jaccard(inter, union) == IF union # 0 THEN Div6(inter, union) ELSE Zero

\* round(inter / len(set_x), 6) if set_x else 0.0
OverlapPct(inter, set_x) ==
    IF set_x # {} THEN Div6(inter, Cardinality(set_x)) ELSE Zero

\* union = len(set_a | set_b)
UnionSizeSum(set_a, set_b) == Cardinality(set_a) + Cardinality(set_b)
UnionSize(set_a, set_b) == Cardinality(set_a \cup set_b)

\* the dict appended for the pair (a, b); err when a division raised
PairRow(m, a, b) ==
    LET set_a == m[a]
        set_b == m[b]
        inter == Cardinality(set_a \cap set_b)
        union == UnionSize(set_a, set_b)
        jacc == Jaccard(inter, union)
        pct_a == OverlapPct(inter, set_a)
        pct_b == OverlapPct(inter, set_b)
    IN [err |-> jacc.err \/ pct_a.err \/ pct_b.err,
        row |-> [query_a |-> a, size_a |-> Cardinality(set_a),
                 query_b |-> b, size_b |-> Cardinality(set_b),
                 overlap |-> inter, union |-> union, jaccard |-> jacc.val,
                 overlap_pct_of_a |-> pct_a.val,
                 overlap_pct_of_b |-> pct_b.val]]

\* for b in qids[i:], i counted from 0: the inner loop starts at a itself
InnerStartAfter(i) == i + 1
InnerStart(i) == i

RECURSIVE PairRowsFrom(_, _, _)
\* the rows appended by the outer loop from position i (counted from 1) on
PairRowsFrom(m, qids, i) ==
    IF i > Len(qids) THEN <<>>
    ELSE [k \in 1..(Len(qids) - InnerStart(i) + 1) |->
              PairRow(m, qids[i], qids[InnerStart(i) + k - 1])]
         \o PairRowsFrom(m, qids, i + 1)

\* build_pair_table
build_pair_table(m) ==
    LET made == PairRowsFrom(m, SortedLabels(DOMAIN m), 1)
    IN IF \E k \in 1..Len(made) : made[k].err
       THEN [raised |-> TRUE, rows |-> <<>>]
       ELSE [raised |-> FALSE, rows |-> [k \in 1..Len(made) |-> made[k].row]]

\* row.append(len(q2ids[a] & q2ids[b]))
MatrixCellDifference(set_a, set_b) == Cardinality(set_a \ set_b)
MatrixCell(set_a, set_b) == Cardinality(set_a \cap set_b)

\* build_overlap_matrix
build_overlap_matrix(m) ==
    LET qids == SortedLabels(DOMAIN m)
    IN [index |-> qids, columns |-> qids,
        data |-> [i \in 1..Len(qids) |->
                     [j \in 1..Len(qids) |-> MatrixCell(m[qids[i]], m[qids[j]])]]]

\* df[df["query_a"] != df["query_b"]]
KeepsRow(row) == row.query_a # row.query_b

RECURSIVE SortedHead(_, _, _)
\* sort_values("jaccard", ascending=False).head(n): the positions of the
\* first n rows of the sorted frame, S being the positions not yet placed.
\* The default kind is quicksort, which does not fix the order of equal
\* keys: any of the rows with the largest key may come next.
SortedHead(rows, S, n) ==
    IF n = 0 \/ S = {} THEN {<<>>}
    ELSE LET largest == {x \in S : \A y \in S : rows[x].jaccard >= rows[y].jaccard}
         IN UNION {{<<x>> \o s : s \in SortedHead(rows, S \ {x}, n - 1)} :
                      x \in largest}

\* the results list_top_overlaps can return for the rows of the pair table
list_top_overlaps(rows, n) ==
    LET df == SelectSeq(rows, KeepsRow)
    IN {[i \in 1..Len(p) |-> df[p[i]]] : p \in SortedHead(df, 1..Len(df), n)}

InitPairs ==
    /\ DedupIdle
    /\ IdentIdle
    /\ AfterPairIdle
    /\ pq2ids \in PairMappings
    /\ pairs = [raised |-> FALSE, rows |-> <<>>]
    /\ matrix = [index |-> <<>>, columns |-> <<>>, data |-> <<>>]
    /\ top = <<>>
    /\ topn \in 0..MaxTop
    /\ ppc = "start"

\* pair_df = build_pair_table(q2ids)
BuildPairTable ==
    /\ ppc = "start"
    /\ pairs' = build_pair_table(pq2ids)
    /\ ppc' = IF pairs'.raised THEN "raised" ELSE "pairs"
    /\ UNCHANGED <<pq2ids, matrix, top, topn, dedupVars, identVars, afterPairVars>>

\* matrix_df = build_overlap_matrix(q2ids)
BuildOverlapMatrix ==
    /\ ppc = "pairs"
    /\ matrix' = build_overlap_matrix(pq2ids)
    /\ ppc' = "matrix"
    /\ UNCHANGED <<pq2ids, pairs, top, topn, dedupVars, identVars, afterPairVars>>

\* list_top_overlaps(pair_out, n), on the pair table written before
ListTopOverlaps ==
    /\ ppc = "matrix"
    /\ top' \in list_top_overlaps(pairs.rows, topn)
    /\ ppc' = "top"
    /\ UNCHANGED <<pq2ids, pairs, matrix, topn, dedupVars, identVars, afterPairVars>>

NextPairs == BuildPairTable \/ BuildOverlapMatrix \/ ListTopOverlaps

SpecPairs == InitPairs /\ [][NextPairs]_vars

(* -------------------- claims about the overlap tables ------------------- *)

\* build_pair_table has returned its rows
PairsBuilt == ppc \in {"pairs", "matrix", "top"}

PairRowsSet == Range(pairs.rows)

\* C11: in every row 0 <= overlap <= union and the Jaccard value is
\* overlap / union to the nearest millionth, within [0, 1]; a self-pair of a
\* non-empty group has overlap = union = size_a, Jaccard 1.0 and both
\* overlap fractions 1.0.
C11_JaccardRange ==
    PairsBuilt =>
        \A r \in PairRowsSet :
            /\ 0 <= r.overlap /\ r.overlap <= r.union
            /\ 0 <= r.jaccard /\ r.jaccard <= 1000000
            /\ LET d == r.jaccard * r.union - r.overlap * 1000000
               IN 2 * d <= r.union /\ -2 * d <= r.union
            /\ (r.query_a = r.query_b /\ r.size_a > 0) =>
                   /\ r.overlap = r.size_a
                   /\ r.union = r.size_a
                   /\ r.jaccard = 1000000
                   /\ r.overlap_pct_of_a = 1000000
                   /\ r.overlap_pct_of_b = 1000000

\* the table holds a self-pair of a non-empty group and a partial overlap
C11_Witness ==
    /\ PairsBuilt
    /\ \E r \in PairRowsSet : r.query_a = r.query_b /\ r.size_a > 0
    /\ \E r \in PairRowsSet : 0 < r.jaccard /\ r.jaccard < 1000000

\* C12: the overlap matrix has the labels in ascending order as rows and as
\* columns, is symmetric, holds the intersection sizes, and has the group
\* sizes on its diagonal.
C12_MatrixSymmetric ==
    ppc \in {"matrix", "top"} =>
        LET n == Len(matrix.index)
        IN /\ matrix.columns = matrix.index
           /\ Range(matrix.index) = DOMAIN pq2ids
           /\ n = Cardinality(DOMAIN pq2ids)
           /\ \A i, j \in 1..n :
                  i < j => LabelRank(matrix.index[i]) < LabelRank(matrix.index[j])
           /\ Len(matrix.data) = n
           /\ \A i, j \in 1..n :
                  /\ matrix.data[i][j] = matrix.data[j][i]
                  /\ matrix.data[i][j] =
                         Cardinality(pq2ids[matrix.index[i]] \cap pq2ids[matrix.index[j]])
           /\ \A i \in 1..n :
                  matrix.data[i][i] = Cardinality(pq2ids[matrix.index[i]])

\* a matrix of groups of different sizes that overlap
C12_Witness ==
    /\ ppc = "matrix"
    /\ Len(matrix.index) >= 2
    /\ matrix.data[1][2] > 0
    /\ matrix.data[1][1] # matrix.data[2][2]

\* C13: the pair table has one row for each unordered pair of groups, the
\* self-pairs included (n(n+1)/2 rows), with query_a <= query_b, in the order
\* of the nested loops over the ascending labels, and each row holds the
\* sizes, the intersection size and the union size of its two groups.
C13_PairRows ==
    PairsBuilt =>
        LET n == Cardinality(DOMAIN pq2ids)
            rows == pairs.rows
        IN /\ 2 * Len(rows) = n * (n + 1)
           /\ \A a, b \in DOMAIN pq2ids :
                  LabelRank(a) <= LabelRank(b) =>
                      Cardinality({k \in 1..Len(rows) :
                          {rows[k].query_a, rows[k].query_b} = {a, b}}) = 1
           /\ \A k \in 1..Len(rows) :
                  /\ LabelRank(rows[k].query_a) <= LabelRank(rows[k].query_b)
                  /\ rows[k].size_a = Cardinality(pq2ids[rows[k].query_a])
                  /\ rows[k].size_b = Cardinality(pq2ids[rows[k].query_b])
                  /\ rows[k].overlap =
                         Cardinality(pq2ids[rows[k].query_a] \cap pq2ids[rows[k].query_b])
                  /\ rows[k].union =
                         Cardinality(pq2ids[rows[k].query_a] \cup pq2ids[rows[k].query_b])
           /\ \A k, l \in 1..Len(rows) :
                  k < l =>
                      \/ LabelRank(rows[k].query_a) < LabelRank(rows[l].query_a)
                      \/ /\ rows[k].query_a = rows[l].query_a
                         /\ LabelRank(rows[k].query_b) < LabelRank(rows[l].query_b)

\* the table of three groups: six rows
C13_Witness ==
    /\ PairsBuilt
    /\ Cardinality(DOMAIN pq2ids) = 3
    /\ Len(pairs.rows) = 6
    /\ \E r \in PairRowsSet : r.overlap > 0 /\ r.overlap < r.union

\* C14: build_pair_table divides by zero for no mapping; a pair of two empty
\* sets has Jaccard 0.0, and an empty side has overlap fraction 0.0.
C14_NoDivisionByZero ==
    /\ ppc # "raised"
    /\ PairsBuilt =>
           \A r \in PairRowsSet :
               /\ (r.size_a = 0 /\ r.size_b = 0) => r.jaccard = 0
               /\ r.size_a = 0 => r.overlap_pct_of_a = 0
               /\ r.size_b = 0 => r.overlap_pct_of_b = 0

\* the table of a mapping with two empty groups and a non-empty one
C14_Witness ==
    /\ PairsBuilt
    /\ \E r \in PairRowsSet :
           r.query_a # r.query_b /\ r.size_a = 0 /\ r.size_b = 0
    /\ \E r \in PairRowsSet : r.size_a = 0 /\ r.size_b > 0

\* position of a row of the result in the pair table
PairIndex(row) == CHOOSE k \in 1..Len(pairs.rows) : pairs.rows[k] = row

\* C15: list_top_overlaps returns at most n rows of the pair table, none a
\* self-pair, in descending order of Jaccard, and rows of equal Jaccard keep
\* the relative order they had in the pair table.
C15_TopStable ==
    ppc = "top" =>
        /\ Len(top) <= topn
        /\ \A i \in 1..Len(top) :
               /\ top[i] \in PairRowsSet
               /\ top[i].query_a # top[i].query_b
        /\ \A i, j \in 1..Len(top) :
               i < j =>
                   /\ top[i].jaccard >= top[j].jaccard
                   /\ top[i].jaccard = top[j].jaccard =>
                          PairIndex(top[i]) < PairIndex(top[j])

\* what of C15 the code does guarantee: size, no self-pair, descending order
C15_TopDescending ==
    ppc = "top" =>
        /\ Len(top) <= topn
        /\ \A i \in 1..Len(top) :
               /\ top[i] \in PairRowsSet
               /\ top[i].query_a # top[i].query_b
        /\ \A i, j \in 1..Len(top) : i < j => top[i].jaccard >= top[j].jaccard

(* ------------- load_all_records, analyze_folder and main --------------- *)

OverlapTools == {"query_analyses", "analysis"}
Tools == OverlapTools \cup {"summary"}

DotJsonl == <<".", "j", "s", "o", "n", "l">>

\* the files found: suffix, name of the parent directory, stem of the name
LoadFiles ==
    {[suffix |-> x, parent |-> <<"A">>, stem |-> <<"A">>] : x \in {"jsonl", "json"}}
        \cup {[suffix |-> x, parent |-> <<"C">>, stem |-> <<"C">> \o DotJsonl] :
                  x \in {"jsonl", "json"}}

\* the records of the overlap tools' input
LoadRecords == [doi : {None, Str(S_space), Str(S_doi_upper)},
                dc_identifier : {None},
                prism_doi : {None},
                eid : {None, Str(S_eid)},
                query_id : {None, Str(<<"B">>)}]

\* the entries of ref_docs: dicts, and a value that is not a dict
RefDicts == {[doi |-> Str(S_doi_upper), title |-> Str(<<"t">>), id |-> None],
             [doi |-> Str(S_doi_lower), title |-> Str(<<"t", " ">>), id |-> None],
             [doi |-> None, title |-> Str(<<"u">>), id |-> Str(<<"7">>)]}
NotADict == [t |-> "str", v |-> <<"r">>]
RefItems == RefDicts \cup {NotADict}
IsDict(r) == r \in RefDicts

List(l) == [t |-> "list", v |-> l]
RefDocs == {None, List(<<>>)} \cup {List(<<r>>) : r \in RefItems}
               \cup {List(<<r1, r2>>) : r1, r2 \in {r \in RefDicts : r.id = None}}

\* the records of the summary tool's input
SumRecords == [abstract : {None, Str(S_space), Str(<<"a">>)}, ref_docs : RefDocs]

BlankLine == [kind |-> "blank"]
MalformedLine == [kind |-> "malformed"]
RecordLine(r) == [kind |-> "record", rec |-> r]

\* what a line of a file may hold
Lines(t) ==
    {BlankLine, MalformedLine}
        \cup {RecordLine(r) : r \in IF t = "summary" THEN SumRecords ELSE LoadRecords}

\* extract_id of the script that runs
ExtractId(t, r) ==
    IF t = "query_analyses" THEN extract_id_query_analyses(r) ELSE extract_id_analysis(r)

\* infer_query_id of the script that runs
infer_query_id(t, fp, r) ==
    IF t = "query_analyses"
    THEN Or(r.query_id, Str(fp.parent))
    ELSE Or(r.query_id, Str(Replace(fp.stem, DotJsonl)))

\* q2ids[qid].add(rid) on a defaultdict(set)
AddId(m, qid, rid) ==
    [q \in DOMAIN m \cup {qid} |->
        IF q = qid
        THEN (IF q \in DOMAIN m THEN m[q] ELSE {}) \cup {rid}
        ELSE m[q]]

\* `if not files`
FilesMissingNever(n) == FALSE
FilesMissing(n) == n = 0

\* `if not rid: continue`
DropsRecordNever(rid) == FALSE
DropsRecord(rid) == ~Truthy(rid)

\* json.loads sits in a try whose handler is `except json.JSONDecodeError: continue`
CatchesDecodeErrorAll(t) == TRUE
CatchesDecodeError(t) == t = "summary"

\* extract_abstract, for an abstract that is None or a str
extract_abstract(r) ==
    IF r.abstract = None THEN <<>> ELSE Strip(r.abstract.v)

\* norm_title, for a title that is None or a str
norm_title(value) == IF ~Truthy(value) THEN <<>> ELSE Strip(value.v)

\* ref_key: (doi, title, refid)
ref_key(ref) ==
    <<norm_doi_summary(ref.doi).v, norm_title(ref.title),
      Strip(Or(ref.id, Str(<<>>)).v)>>

\* ref_counts[key] += 1 on a Counter
CountKey(counts, key) ==
    [k \in DOMAIN counts \cup {key} |->
        IF k = key
        THEN (IF k \in DOMAIN counts THEN counts[k] ELSE 0) + 1
        ELSE counts[k]]

RECURSIVE CountRefs(_, _)
\* for r in refs: if isinstance(r, dict): ref_counts[ref_key(r)] += 1
CountRefs(counts, refs) ==
    IF refs = <<>> THEN counts
    ELSE CountRefs(IF IsDict(Head(refs)) THEN CountKey(counts, ref_key(Head(refs)))
                   ELSE counts,
                   Tail(refs))

counters == <<n_records, n_empty_refs, n_empty_abs, total_refs, ref_counts>>
notLoadVars == <<dedupVars, identVars, pairVars, afterLoadVars>>

\* an exception nothing catches: traceback on the error stream, exit status 1
Raise(e) ==
    /\ exc' = e
    /\ exitcode' = 1
    /\ stderr' = stderr \cup {"Traceback"}
    /\ lpc' = "exited"

Seen(kind) == [hist EXCEPT ![kind] = @ + 1]

InitLoad ==
    /\ DedupIdle
    /\ IdentIdle
    /\ PairIdle
    /\ AfterLoadIdle
    /\ tool \in Tools
    /\ nfiles \in 0..MaxFiles
    /\ nsub \in (IF tool = "summary" THEN 0..MaxFiles ELSE {0})
    /\ cur = NoFile
    /\ nlines = 0
    /\ line = NoLine
    /\ records = <<>>
    /\ lq2ids = <<>>
    /\ n_records = 0
    /\ n_empty_refs = 0
    /\ n_empty_abs = 0
    /\ total_refs = 0
    /\ ref_counts = <<>>
    /\ lpc = "start"
    /\ exc = "none"
    /\ exitcode = -1
    /\ stderr = {}
    /\ outdir = FALSE
    /\ written = {}
    /\ hist = NoHist

\* main creates OUT_DIR, then load_all_records lists the files
FindFiles ==
    /\ lpc = "start"
    /\ tool \in OverlapTools
    /\ outdir' = TRUE
    /\ IF FilesMissing(nfiles)
       THEN /\ stderr' = stderr \cup {"No raw files"}
            /\ exitcode' = 1
            /\ exc' = "SystemExit"
            /\ lpc' = "exited"
       ELSE /\ lpc' = "open"
            /\ UNCHANGED <<stderr, exitcode, exc>>
    /\ UNCHANGED <<tool, nfiles, nsub, cur, nlines, line, records, lq2ids,
                   counters, written, hist, notLoadVars>>

\* for fp in files: a .jsonl file is opened by read_jsonl
OpenJsonl ==
    /\ lpc = "open"
    /\ tool \in OverlapTools
    /\ nfiles > 0
    /\ \E fp \in LoadFiles, n \in 0..MaxLines :
           /\ fp.suffix = "jsonl"
           /\ cur' = fp
           /\ nlines' = n
    /\ records' = <<>>
    /\ lpc' = "read"
    /\ UNCHANGED <<tool, nfiles, nsub, line, lq2ids, counters, exc, exitcode,
                   stderr, outdir, written, hist, notLoadVars>>

\* for fp in files: a .json file is read whole by read_json
ReadJson ==
    /\ lpc = "open"
    /\ tool \in OverlapTools
    /\ nfiles > 0
    /\ \E fp \in LoadFiles, l \in Lines(tool) :
           /\ fp.suffix = "json"
           /\ cur' = fp
           /\ line' = l.kind
           /\ IF l.kind = "record"
              THEN /\ records' = <<l.rec>>
                   /\ lpc' = "process"
                   /\ UNCHANGED <<exc, exitcode, stderr>>
              ELSE /\ Raise("JSONDecodeError")
                   /\ records' = <<>>
    /\ UNCHANGED <<tool, nfiles, nsub, nlines, lq2ids, counters, outdir,
                   written, hist, notLoadVars>>

\* one turn of read_jsonl's loop
ReadLine ==
    /\ lpc = "read"
    /\ tool \in OverlapTools
    /\ nlines > 0
    /\ nlines' = nlines - 1
    /\ \E l \in Lines(tool) :
           /\ line' = l.kind
           /\ hist' = Seen(l.kind)
           /\ IF l.kind = "blank"
              THEN UNCHANGED <<records, lpc, exc, exitcode, stderr>>
              ELSE IF l.kind = "malformed"
              THEN IF CatchesDecodeError(tool)
                   THEN UNCHANGED <<records, lpc, exc, exitcode, stderr>>
                   ELSE Raise("JSONDecodeError") /\ UNCHANGED records
              ELSE /\ records' = Append(records, l.rec)
                   /\ UNCHANGED <<lpc, exc, exitcode, stderr>>
    /\ UNCHANGED <<tool, nfiles, nsub, cur, lq2ids, counters, outdir, written,
                   notLoadVars>>

\* read_jsonl returns the records
EndOfFile ==
    /\ lpc = "read"
    /\ tool \in OverlapTools
    /\ nlines = 0
    /\ lpc' = "process"
    /\ UNCHANGED <<tool, nfiles, nsub, cur, nlines, line, records, lq2ids,
                   counters, exc, exitcode, stderr, outdir, written, hist,
                   notLoadVars>>

\* one turn of `for rec in records`
ProcessRecord ==
    /\ lpc = "process"
    /\ records # <<>>
    /\ LET r == Head(records)
           rid == ExtractId(tool, r)
       IN IF DropsRecord(rid)
          THEN /\ hist' = Seen("dropped")
               /\ UNCHANGED lq2ids
          ELSE /\ lq2ids' = AddId(lq2ids, infer_query_id(tool, cur, r).v, rid.v)
               /\ UNCHANGED hist
    /\ records' = Tail(records)
    /\ UNCHANGED <<tool, nfiles, nsub, cur, nlines, line, counters, lpc, exc,
                   exitcode, stderr, outdir, written, notLoadVars>>

\* the records of the file are done: the next file
NextFile ==
    /\ lpc = "process"
    /\ records = <<>>
    /\ nfiles' = nfiles - 1
    /\ lpc' = "open"
    /\ UNCHANGED <<tool, nsub, cur, nlines, line, records, lq2ids, counters,
                   exc, exitcode, stderr, outdir, written, hist, notLoadVars>>

\* load_all_records returns q2ids
ReturnMapping ==
    /\ lpc = "open"
    /\ tool \in OverlapTools
    /\ nfiles = 0
    /\ lpc' = "loaded"
    /\ UNCHANGED <<tool, nfiles, nsub, cur, nlines, line, records, lq2ids,
                   counters, exc, exitcode, stderr, outdir, written, hist,
                   notLoadVars>>

\* main builds and writes the pair table, the matrix and the sizes
WriteTables ==
    /\ lpc = "loaded"
    /\ written' = written \cup {"overlap_pairs", "overlap_matrix", "query_sizes"}
    /\ lpc' = IF tool = "query_analyses" THEN "dedup" ELSE "top"
    /\ UNCHANGED <<tool, nfiles, nsub, cur, nlines, line, records, lq2ids,
                   counters, exc, exitcode, stderr, outdir, hist, notLoadVars>>

\* main of query_analyses deduplicates and writes the before/after sizes
WriteDedup ==
    /\ lpc = "dedup"
    /\ written' = written \cup {"query_sizes_dedup"}
    /\ lpc' = "top"
    /\ UNCHANGED <<tool, nfiles, nsub, cur, nlines, line, records, lq2ids,
                   counters, exc, exitcode, stderr, outdir, hist, notLoadVars>>

\* list_top_overlaps reads the pair table back: the table of an empty
\* mapping has no columns to parse
ListTop ==
    /\ lpc = "top"
    /\ IF DOMAIN lq2ids = {}
       THEN Raise("EmptyDataError")
       ELSE /\ lpc' = "done"
            /\ exitcode' = 0
            /\ UNCHANGED <<exc, stderr>>
    /\ UNCHANGED <<tool, nfiles, nsub, cur, nlines, line, records, lq2ids,
                   counters, outdir, written, hist, notLoadVars>>

\* analyze_folder lists the .jsonl files of the folder, then those below it
SumFindFiles ==
    /\ lpc = "start"
    /\ tool = "summary"
    /\ LET jsonl_files == IF nfiles # 0 THEN nfiles ELSE nsub
       IN /\ nfiles' = jsonl_files
          /\ lpc' = IF jsonl_files = 0 THEN "returned None" ELSE "open"
    /\ UNCHANGED <<tool, nsub, cur, nlines, line, records, lq2ids, counters,
                   exc, exitcode, stderr, outdir, written, hist, notLoadVars>>

\* for file in jsonl_files: with file.open(...)
SumOpenFile ==
    /\ lpc = "open"
    /\ tool = "summary"
    /\ nfiles > 0
    /\ \E n \in 0..MaxLines : nlines' = n
    /\ lpc' = "read"
    /\ UNCHANGED <<tool, nfiles, nsub, cur, line, records, lq2ids, counters, exc,
                   exitcode, stderr, outdir, written, hist, notLoadVars>>

\* one turn of analyze_folder's loop over the lines
SumReadLine ==
    /\ lpc = "read"
    /\ tool = "summary"
    /\ nlines > 0
    /\ nlines' = nlines - 1
    /\ \E l \in Lines(tool) :
           /\ line' = l.kind
           /\ hist' = Seen(l.kind)
           /\ IF l.kind = "blank"
              THEN UNCHANGED <<counters, lpc, exc, exitcode, stderr>>
              ELSE IF l.kind = "malformed"
              THEN IF CatchesDecodeError(tool)
                   THEN UNCHANGED <<counters, lpc, exc, exitcode, stderr>>
                   ELSE Raise("JSONDecodeError") /\ UNCHANGED counters
              ELSE /\ n_records' = n_records + 1
                   /\ n_empty_abs' = IF extract_abstract(l.rec) = <<>>
                                     THEN n_empty_abs + 1 ELSE n_empty_abs
                   /\ LET refs == l.rec.ref_docs
                      IN IF refs.v = <<>>
                         THEN /\ n_empty_refs' = n_empty_refs + 1
                              /\ UNCHANGED <<total_refs, ref_counts>>
                         ELSE /\ total_refs' = total_refs + Len(refs.v)
                              /\ ref_counts' = CountRefs(ref_counts, refs.v)
                              /\ UNCHANGED n_empty_refs
                   /\ UNCHANGED <<lpc, exc, exitcode, stderr>>
    /\ UNCHANGED <<tool, nfiles, nsub, cur, records, lq2ids, outdir, written,
                   notLoadVars>>

\* the lines of the file are done: the next file
SumEndOfFile ==
    /\ lpc = "read"
    /\ tool = "summary"
    /\ nlines = 0
    /\ nfiles' = nfiles - 1
    /\ lpc' = "open"
    /\ UNCHANGED <<tool, nsub, cur, nlines, line, records, lq2ids, counters,
                   exc, exitcode, stderr, outdir, written, hist, notLoadVars>>

\* after the loop: the summary lines (which divide by n_records), the two
\* files of the folder (the counts are sorted by their column "count")
SumFinish ==
    /\ lpc = "open"
    /\ tool = "summary"
    /\ nfiles = 0
    /\ IF n_records = 0
       THEN Raise("ZeroDivisionError") /\ UNCHANGED written
       ELSE IF DOMAIN ref_counts = {}
       THEN /\ written' = written \cup {"_analysis_summary"}
            /\ Raise("KeyError")
       ELSE /\ written' = written \cup {"_analysis_summary", "_reference_counts"}
            /\ lpc' = "returned"
            /\ UNCHANGED <<exc, exitcode, stderr>>
    /\ UNCHANGED <<tool, nfiles, nsub, cur, nlines, line, records, lq2ids,
                   counters, outdir, hist, notLoadVars>>

NextLoad ==
    \/ FindFiles \/ OpenJsonl \/ ReadJson \/ ReadLine \/ EndOfFile
    \/ ProcessRecord \/ NextFile \/ ReturnMapping
    \/ WriteTables \/ WriteDedup \/ ListTop
    \/ SumFindFiles \/ SumOpenFile \/ SumReadLine \/ SumEndOfFile \/ SumFinish

SpecLoad == InitLoad /\ [][NextLoad]_vars

(* ----------------------- claims about the loaders ---------------------- *)

OutputTables == {"overlap_pairs", "overlap_matrix", "query_sizes", "query_sizes_dedup"}

\* load_all_records of an overlap script has found no file
FoundNoFile == tool \in OverlapTools /\ lpc # "start" /\ cur = NoFile /\ nfiles = 0

\* C16: when load_all_records finds no .jsonl or .json file, the run ends
\* with exit status 1 after the diagnostic on the error stream, and none of
\* the output tables is written.
C16_NoFilesExit ==
    FoundNoFile =>
        /\ lpc = "exited"
        /\ exitcode = 1
        /\ "No raw files" \in stderr
        /\ written \cap OutputTables = {}

\* a run over a root without files has ended
C16_Witness == FoundNoFile /\ lpc = "exited" /\ exc = "SystemExit" /\ outdir

\* no identifier can be derived: the DOI fields, and the eid where the
\* script reads it, are absent or blank
NoIdentifier(t, r) ==
    /\ \A v \in {r.doi, r.dc_identifier, r.prism_doi} : v = None \/ Strip(v.v) = <<>>
    /\ t = "analysis" => r.eid = None \/ r.eid.v = <<>>

\* C19: a record from which no identifier can be derived is dropped by
\* load_all_records without error: the mapping is left as it was, no group
\* is created (every group of the mapping is non-empty and holds no empty
\* identifier), and the loader goes on with the remaining records.
C19_DropsRecord ==
    /\ [][(/\ tool \in OverlapTools
           /\ lpc = "process"
           /\ records # <<>>
           /\ NoIdentifier(tool, Head(records)))
          => /\ lq2ids' = lq2ids
             /\ records' = Tail(records)
             /\ lpc' = "process"
             /\ exc' = "none"
             /\ exitcode' = -1]_vars
    /\ [](\A q \in DOMAIN lq2ids : lq2ids[q] # {} /\ <<>> \notin lq2ids[q])

\* of the two records of the first file one was dropped and the other loaded
C19_Witness ==
    /\ tool \in OverlapTools
    /\ lpc = "process"
    /\ hist.record = 2
    /\ hist.dropped = 1
    /\ nfiles = MaxFiles
    /\ records = <<>>
    /\ DOMAIN lq2ids # {}
    /\ cur.suffix = "jsonl"

\* C20: a malformed line of a line-delimited file ends an overlap loader
\* with the parse error, and no mapping is returned; the summary tool skips
\* it, does not count it as a record, and goes on with the following lines;
\* a blank line is skipped by both.
C20_MalformedLine ==
    /\ [][(nlines' = nlines - 1 /\ line' = "malformed")
          => IF tool = "summary"
             THEN /\ counters' = counters
                  /\ lpc' = "read"
                  /\ exc' = "none"
             ELSE /\ exc' = "JSONDecodeError"
                  /\ exitcode' = 1
                  /\ lpc' = "exited"
                  /\ lq2ids' = lq2ids]_vars
    /\ [][(nlines' = nlines - 1 /\ line' = "blank")
          => /\ counters' = counters
             /\ records' = records
             /\ lq2ids' = lq2ids
             /\ lpc' = "read"
             /\ exc' = "none"]_vars
    /\ [][lpc = "exited" => lpc' = "exited"]_vars
    /\ [](exc = "JSONDecodeError" => lpc = "exited" /\ written = {})
    /\ [](tool = "summary" => n_records = hist.record)

\* the summary tool has skipped a malformed line and counted the record that
\* followed it
C20_Witness ==
    /\ tool = "summary"
    /\ hist.malformed = 1
    /\ hist.record = 1
    /\ line = "record"
    /\ n_records = 1

(* ------------------------ the collection scripts ----------------------- *)

Plain == "run_queries"
Streaming == "queries/run_queries_refs_abs_short"
Collect == "run_queries/run_queries_refs_abs_short"
AbstractRef == "run_queries_abstract_ref"
Scripts == {Plain, Streaming, Collect, AbstractRef}

\* the queries the loop of main goes through: queries, or queries[:1]
QueryLimit(sc, n) == IF sc = Streaming THEN (IF n < 1 THEN n ELSE 1) ELSE n

\* what the API answers to the successive retrievals of one document: a
\* success at call k, or none
Outcomes == {[i \in 1..(MaxRetries + 1) |-> i = k] : k \in 0..(MaxRetries + 1)}
NoSuccess == [i \in 1..(MaxRetries + 1) |-> FALSE]

\* `for _ in range(retries)`: another call is made
MayAttemptOnceMore(k, n) == k <= n
MayAttempt(k, n) == k < n

RECURSIVE FetchLoop(_, _, _)
\* fetch_full_for_eid, fetch_refs_for_eid, fetch_abstract_for_eid: the loop
\* returns at the first call that does not raise; k calls were made so far
FetchLoop(o, n, k) ==
    IF ~MayAttempt(k, n) THEN [attempts |-> k, ok |-> FALSE]
    ELSE IF o[k + 1] THEN [attempts |-> k + 1, ok |-> TRUE]
    ELSE FetchLoop(o, n, k + 1)

\* d after the retrieval: abstract and references of the document, or the
\* empty values
\* d: title (and doi) are the result's own, written here as its position
\* in the result list
EmptyDoc(i, e) == [title |-> i, eid |-> e, abstract |-> "None", ref_docs |-> "empty"]
FilledDoc(i, e, abs, refs) == [title |-> i, eid |-> e, abstract |-> abs, ref_docs |-> refs]

\* `if len(buffer) >= BATCH_SIZE`
ShouldFlushOver(buf) == Len(buf) > BATCH_SIZE
ShouldFlush(buf) == Len(buf) >= BATCH_SIZE

InitRun ==
    /\ DedupIdle
    /\ IdentIdle
    /\ PairIdle
    /\ LoadIdle
    /\ SizeIdle
    /\ script \in Scripts
    /\ nqueries \in 0..MaxQueries
    /\ retries \in (IF script \in {Streaming, Collect} THEN 0..MaxRetries ELSE {0})
    /\ qi = 0
    /\ summary = <<>>
    /\ errlog = <<>>
    /\ rpc = "start"
    /\ rexc = "none"
    /\ rexit = -1
    /\ ndocs = 0
    /\ di = 0
    /\ eid = FALSE
    /\ full_doc = "unbound"
    /\ attempts = 0
    /\ outcomes = NoSuccess
    /\ drec = NoDoc
    /\ buffer = <<>>
    /\ nwritten = 0
    /\ outfile = <<>>
    /\ summary_file = Unwritten

docVars == <<ndocs, di, eid, full_doc, attempts, outcomes, drec, buffer,
             nwritten, outfile>>
notRunVars == <<dedupVars, identVars, pairVars, loadVars, sizeVars>>

\* an exception nothing catches ends the run
Crash(e) ==
    /\ rexc' = e
    /\ rexit' = 1
    /\ errlog' = Append(errlog, "Traceback")
    /\ rpc' = "exited"

\* the handler of the query's try: the error is printed, the loop goes on
QueryFailed ==
    /\ errlog' = Append(errlog, qi)
    /\ qi' = qi + 1
    /\ rpc' = "loop"

\* main up to the head of the loop over the queries
LoadQueries ==
    /\ rpc = "start"
    /\ IF nqueries = 0
       THEN /\ errlog' = Append(errlog, "No queries found")
            /\ rexc' = "SystemExit"
            /\ rexit' = 1
            /\ rpc' = "exited"
            /\ UNCHANGED qi
       ELSE IF script = AbstractRef
       THEN \* `for q in queries[1]`: the keys of the second query, or no
            \* second query; q["id"] on a key raises outside the try
            /\ Crash(IF nqueries < 2 THEN "IndexError" ELSE "TypeError")
            /\ UNCHANGED qi
       ELSE /\ qi' = 1
            /\ rpc' = "loop"
            /\ UNCHANGED <<errlog, rexc, rexit>>
    /\ UNCHANGED <<script, nqueries, retries, summary, docVars, summary_file,
                   notRunVars>>

\* the search of the query: it raises, or returns the results
StartQuery ==
    /\ rpc = "loop"
    /\ qi <= QueryLimit(script, nqueries)
    /\ \E ok \in BOOLEAN, n \in 0..MaxDocs :
           IF ok
           THEN /\ ndocs' = n
                /\ di' = 0
                /\ buffer' = <<>>
                /\ nwritten' = 0
                /\ outfile' = <<>>
                /\ rpc' = "doc"
                /\ UNCHANGED <<errlog, qi>>
           ELSE /\ n = 0
                /\ QueryFailed
                /\ UNCHANGED <<ndocs, di, buffer, nwritten, outfile>>
    /\ UNCHANGED <<script, nqueries, retries, summary, rexc, rexit, eid,
                   full_doc, attempts, outcomes, drec, summary_file, notRunVars>>

\* run_queries.py: the document is recorded as it came
ProcessDocPlain ==
    /\ rpc = "doc"
    /\ script = Plain
    /\ di < ndocs
    /\ \E e \in BOOLEAN :
           /\ drec' = [title |-> di, eid |-> e, abstract |-> "absent", ref_docs |-> "absent"]
           /\ buffer' = Append(buffer, drec')
    /\ di' = di + 1
    /\ UNCHANGED <<script, nqueries, retries, qi, summary, errlog, rpc, rexc,
                   rexit, ndocs, eid, full_doc, attempts, outcomes, nwritten,
                   outfile, summary_file, notRunVars>>

\* the streaming collector: one turn of the loop over the results
ProcessDocStreaming ==
    /\ rpc = "doc"
    /\ script = Streaming
    /\ di < ndocs
    /\ \E e \in BOOLEAN, o \in Outcomes, abs \in {"None", "text"},
          refs \in {"empty", "refs"}, quotaRaises \in BOOLEAN :
           LET f == IF e THEN FetchLoop(o, retries, 0)
                    ELSE [attempts |-> 0, ok |-> FALSE]
               fd == IF e THEN (IF f.ok THEN "doc" ELSE "None") ELSE full_doc
               new == IF e /\ f.ok THEN FilledDoc(di, e, abs, refs) ELSE EmptyDoc(di, e)
               buf == Append(buffer, new)
               flush == ShouldFlush(buf)
               quota == di % QuotaEvery = 0 /\ e /\ fd = "doc"
           IN /\ ~e => o = outcomes
              /\ ~(e /\ f.ok) => abs = "None" /\ refs = "empty"
              /\ ~quota => ~quotaRaises
              /\ eid' = e
              /\ outcomes' = o
              /\ attempts' = f.attempts
              /\ full_doc' = fd
              /\ drec' = new
              /\ buffer' = IF flush THEN <<>> ELSE buf
              /\ outfile' = IF flush THEN outfile \o buf ELSE outfile
              /\ nwritten' = IF flush THEN nwritten + Len(buf) ELSE nwritten
              /\ IF quotaRaises
                 THEN QueryFailed /\ UNCHANGED di
                 ELSE di' = di + 1 /\ UNCHANGED <<errlog, qi, rpc>>
    /\ UNCHANGED <<script, nqueries, retries, summary, rexc, rexit, ndocs,
                   summary_file, notRunVars>>

\* the collector that keeps the records in memory: one turn of its loop
ProcessDocCollect ==
    /\ rpc = "doc"
    /\ script = Collect
    /\ di < ndocs
    /\ \E e \in BOOLEAN, o \in Outcomes, abs \in {"None", "text"},
          refs \in {"empty", "refs"}, quotaRaises \in BOOLEAN :
           LET f == IF e THEN FetchLoop(o, retries, 0)
                    ELSE [attempts |-> 0, ok |-> FALSE]
               fd == IF e THEN (IF f.ok THEN "doc" ELSE "None") ELSE full_doc
               new == IF e /\ f.ok THEN FilledDoc(di, e, abs, refs) ELSE EmptyDoc(di, e)
               check == di % QuotaEvery = 0
               unbound == check /\ fd = "unbound"
               quota == check /\ fd = "doc"
           IN /\ ~e => o = outcomes
              /\ ~(e /\ f.ok) => abs = "None" /\ refs = "empty"
              /\ ~quota => ~quotaRaises
              /\ eid' = e
              /\ outcomes' = o
              /\ attempts' = f.attempts
              /\ full_doc' = fd
              /\ drec' = new
              /\ IF unbound \/ quotaRaises
                 THEN QueryFailed /\ UNCHANGED <<di, buffer>>
                 ELSE /\ buffer' = Append(buffer, new)
                      /\ di' = di + 1
                      /\ UNCHANGED <<errlog, qi, rpc>>
    /\ UNCHANGED <<script, nqueries, retries, summary, rexc, rexit, ndocs,
                   nwritten, outfile, summary_file, notRunVars>>

\* after the loop over the results: the rest is written, the query is
\* appended to summary
EndDocs ==
    /\ rpc = "doc"
    /\ di = ndocs
    /\ IF script = Streaming
       THEN /\ outfile' = outfile \o buffer
            /\ nwritten' = nwritten + Len(buffer)
       ELSE /\ outfile' = buffer
            /\ nwritten' = Len(buffer)
    /\ summary' = Append(summary, [query_id |-> qi, n_returned |-> nwritten'])
    /\ qi' = qi + 1
    /\ rpc' = "loop"
    /\ UNCHANGED <<script, nqueries, retries, errlog, rexc, rexit, ndocs, di,
                   eid, full_doc, attempts, outcomes, drec, buffer,
                   summary_file, notRunVars>>

\* after the loop over the queries: _run_summary.json
WriteSummary ==
    /\ rpc = "loop"
    /\ qi > QueryLimit(script, nqueries)
    /\ summary_file' = [written |-> TRUE, queries |-> summary]
    /\ rpc' = "done"
    /\ rexit' = 0
    /\ UNCHANGED <<script, nqueries, retries, qi, summary, errlog, rexc,
                   docVars, notRunVars>>

NextRun ==
    \/ LoadQueries \/ StartQuery
    \/ ProcessDocPlain \/ ProcessDocStreaming \/ ProcessDocCollect
    \/ EndDocs \/ WriteSummary

SpecRun == InitRun /\ [][NextRun]_vars

(* ------------------ claims about the collection scripts ---------------- *)

\* the documents recorded for the query so far
Recorded == outfile \o buffer

\* a turn of the loop over the results is about to run, in a script that
\* retrieves each document
DocStep == rpc = "doc" /\ di < ndocs /\ script \in {Streaming, Collect}

\* C17: the retrieval of a document is attempted at most `retries` times and
\* stops at the first success; when every attempt fails the document is
\* still recorded, with abstract = None and ref_docs = [], and the loop goes
\* on with the next document: the query is not aborted.
C17_BoundedRetries ==
    [][(DocStep /\ eid')
       => LET succeeded == {k \in 1..retries : outcomes'[k]}
          IN /\ attempts' <= retries
             /\ IF succeeded # {}
                THEN /\ attempts' \in succeeded
                     /\ \A k \in succeeded : attempts' <= k
                     /\ full_doc' = "doc"
                ELSE /\ attempts' = retries
                     /\ full_doc' = "None"
                     /\ drec'.abstract = "None"
                     /\ drec'.ref_docs = "empty"
                     /\ Recorded' = Append(Recorded, drec')
                     /\ di' = di + 1
                     /\ rpc' = "doc"
                     /\ qi' = qi
                     /\ errlog' = errlog]_vars

\* every attempt for the first of two documents failed: it is recorded as
\* empty and the loop is at the second document
C17_Witness ==
    /\ script = Streaming
    /\ rpc = "doc"
    /\ retries = MaxRetries
    /\ ndocs = 2
    /\ di = 1
    /\ eid
    /\ attempts = retries
    /\ full_doc = "None"
    /\ Recorded = <<EmptyDoc(0, TRUE)>>

\* the scripts C18 is about
PerQueryScripts == {Plain, Collect, AbstractRef}

\* the queries that failed, and those appended to summary, by position
FailedQueries == {errlog[k] : k \in {j \in 1..Len(errlog) : errlog[j] \in 1..MaxQueries + 1}}
SummaryIds(sq) == [k \in 1..Len(sq) |-> sq[k].query_id]

\* C18: no failure inside one query stops the run: every query of the list
\* is processed (a failure is caught and logged), the run summary is written
\* at the end, and it lists exactly the queries that completed without
\* error, in processing order.
C18_FailureContained ==
    (script \in PerQueryScripts /\ nqueries > 0 /\ rexit # -1) =>
        /\ rexc = "none"
        /\ summary_file.written
        /\ summary_file.queries = summary
        /\ LET ids == SummaryIds(summary_file.queries)
           IN /\ Range(ids) = (1..nqueries) \ FailedQueries
              /\ \A i, j \in 1..Len(ids) : i < j => ids[i] < ids[j]

\* C18 for run_queries.py and run_queries/run_queries_refs_abs_short.py only
C18_WhereQueriesRun ==
    (script \in {Plain, Collect} /\ nqueries > 0 /\ rexit # -1) =>
        /\ rexc = "none"
        /\ summary_file.written
        /\ summary_file.queries = summary
        /\ LET ids == SummaryIds(summary_file.queries)
           IN /\ Range(ids) = (1..nqueries) \ FailedQueries
              /\ \A i, j \in 1..Len(ids) : i < j => ids[i] < ids[j]

(* -------------------- the before/after size table ---------------------- *)

\* the mappings the loaders return: every group holds an identifier
LoadedMappings == {m \in PairMappings : \A q \in DOMAIN m : m[q] # {}}

\* `for q in sorted(q2ids_raw.keys())`: the groups that get a row
SizeRowLabelsNonEmpty(raw, dedup) ==
    SortedLabels({q \in DOMAIN raw : q \in DOMAIN dedup /\ dedup[q] # {}})
SizeRowLabels(raw, dedup) == SortedLabels(DOMAIN raw)

\* the row of one group; q2ids_dedup.get(q, set()) for the size after
SizeRow(raw, dedup, q) ==
    [query_id |-> q,
     n_docs_before |-> Cardinality(raw[q]),
     n_docs_after |-> IF q \in DOMAIN dedup THEN Cardinality(dedup[q]) ELSE 0]

\* the total row
TotalRow(raw, dedup) ==
    [query_id |-> "__TOTAL__",
     n_docs_before |-> SumSizes(raw, DOMAIN raw),
     n_docs_after |-> SumSizes(dedup, DOMAIN dedup)]

\* rows of write_query_sizes_dedup and of build_query_sizes_dedup_df
build_query_sizes_dedup(raw, dedup) ==
    LET qs == SizeRowLabels(raw, dedup)
    IN [i \in 1..Len(qs) |-> SizeRow(raw, dedup, qs[i])] \o <<TotalRow(raw, dedup)>>

InitSizes ==
    /\ DedupIdle
    /\ IdentIdle
    /\ PairIdle
    /\ LoadIdle
    /\ RunIdle
    /\ sraw \in LoadedMappings
    /\ sdedup = <<>>
    /\ sremoved = 0
    /\ sizes = <<>>
    /\ spc = "loaded"

notSizeVars == <<dedupVars, identVars, pairVars, loadVars, runVars>>

\* main: q2ids_dedup, removed = dedup_keep_smallest(q2ids), for a dict order
\* and an iteration order of the sets
DedupForSizes ==
    /\ spc = "loaded"
    /\ \E ks \in Perms(DOMAIN sraw) :
           \E order \in RidOrders(ks, sraw) :
               LET r == RunLoop(sraw, 0, BuildRid2qs(ks, sraw, order), 1)
               IN /\ sdedup' = r.out
                  /\ sremoved' = r.removed
    /\ spc' = "deduped"
    /\ UNCHANGED <<sraw, sizes, notSizeVars>>

\* main: the table is built and written
BuildSizes ==
    /\ spc = "deduped"
    /\ sizes' = build_query_sizes_dedup(sraw, sdedup)
    /\ spc' = "table"
    /\ UNCHANGED <<sraw, sdedup, sremoved, notSizeVars>>

NextSizes == DedupForSizes \/ BuildSizes

SpecSizes == InitSizes /\ [][NextSizes]_vars

(* ------------------ claims about the size table ------------------------ *)

RECURSIVE SumColumn(_, _, _)
\* the sum of one column over the first n rows
SumColumn(rows, col, n) ==
    IF n = 0 THEN 0 ELSE rows[n][col] + SumColumn(rows, col, n - 1)

\* C21: the before/after table has one row per input group, in ascending
\* label order, then exactly one __TOTAL__ row holding the sums of the two
\* columns over the group rows; a group that dedup emptied still has its
\* row, with n_docs_after = 0.
C21_SizeTable ==
    spc = "table" =>
        LET n == Cardinality(DOMAIN sraw)
        IN /\ Len(sizes) = n + 1
           /\ {sizes[i].query_id : i \in 1..n} = DOMAIN sraw
           /\ \A i, j \in 1..n :
                  i < j => LabelRank(sizes[i].query_id) < LabelRank(sizes[j].query_id)
           /\ \A i \in 1..n :
                  /\ sizes[i].n_docs_before = Cardinality(sraw[sizes[i].query_id])
                  /\ sizes[i].n_docs_after = Cardinality(sdedup[sizes[i].query_id])
           /\ Cardinality({i \in 1..Len(sizes) : sizes[i].query_id = "__TOTAL__"}) = 1
           /\ sizes[n + 1].query_id = "__TOTAL__"
           /\ sizes[n + 1].n_docs_before = SumColumn(sizes, "n_docs_before", n)
           /\ sizes[n + 1].n_docs_after = SumColumn(sizes, "n_docs_after", n)
           /\ \A q \in DOMAIN sraw :
                  sdedup[q] = {} =>
                      \E i \in 1..n : sizes[i].query_id = q /\ sizes[i].n_docs_after = 0

\* the table of a mapping one of whose groups dedup emptied
C21_Witness ==
    /\ spc = "table"
    /\ Len(sizes) >= 3
    /\ \E i \in 1..(Len(sizes) - 1) :
           sizes[i].n_docs_before > 0 /\ sizes[i].n_docs_after = 0
    /\ sizes[Len(sizes)].n_docs_after < sizes[Len(sizes)].n_docs_before

(* ---------------- claims about the streaming collector ----------------- *)

\* the records, one per result so far, in result order
InResultOrder(recs, n) ==
    /\ Len(recs) = n
    /\ \A i \in 1..n : recs[i].title = i - 1

\* a turn of the streaming loop that raised nothing
StreamingTurn == ProcessDocStreaming /\ rpc' = "doc"

\* the streaming query ends without an exception
StreamingDone == EndDocs /\ script = Streaming

\* C22: in the streaming collector, the buffer never holds more than
\* BATCH_SIZE records; it is written to the file and emptied in the turn in
\* which it reaches BATCH_SIZE, and what is left is written after the last
\* result; when the query completes without an exception the file holds
\* every result once, in result order, and n_returned is their number.
C22_StreamedOnceInOrder ==
    /\ [](script = Streaming => Len(buffer) < BATCH_SIZE)
    /\ [](script = Streaming /\ rpc = "doc" => InResultOrder(Recorded, di))
    /\ [][StreamingTurn =>
            /\ Recorded' = Append(Recorded, drec')
            /\ IF Len(buffer) + 1 = BATCH_SIZE
               THEN buffer' = <<>> /\ outfile' = Recorded'
               ELSE buffer' = Append(buffer, drec') /\ outfile' = outfile]_vars
    /\ [][StreamingDone =>
            /\ outfile' = outfile \o buffer
            /\ InResultOrder(outfile', ndocs)
            /\ summary'[Len(summary')] = [query_id |-> qi, n_returned |-> ndocs]]_vars

\* a streaming query with more results than one batch has completed: one
\* flush in the loop, one after it
C22_Witness ==
    /\ script = Streaming
    /\ rpc = "loop"
    /\ summary # <<>>
    /\ summary[Len(summary)] = [query_id |-> qi - 1, n_returned |-> BATCH_SIZE + 1]
    /\ Len(buffer) = 1
    /\ InResultOrder(outfile, BATCH_SIZE + 1)

(* ------------- claims about a result that has no eid ------------------- *)

\* a turn of a collector's loop for a result without eid in which no quota
\* call is made (full_doc is not a retrieved document)
NoEidTurn ==
    /\ ProcessDocCollect \/ ProcessDocStreaming
    /\ ~eid'
    /\ full_doc' # "doc"

\* the result is recorded with ref_docs = [] and abstract = None and the
\* loop goes on to the next result
RecordedEmpty ==
    /\ drec' = EmptyDoc(di, FALSE)
    /\ Recorded' = Append(Recorded, drec')
    /\ di' = di + 1
    /\ rpc' = "doc"

\* C23: a result without eid is recorded with ref_docs = [] and
\* abstract = None and the rest of the query's results are still processed,
\* at every position of the result list, position 0 and the multiples of
\* the quota interval included.
C23_NoEidRecorded == [][NoEidTurn => RecordedEmpty]_vars

\* it is so wherever full_doc has been assigned before, and in the streaming
\* collector at every position
C23_WhereFullDocBound ==
    [][NoEidTurn /\ (script = Streaming \/ full_doc # "unbound") => RecordedEmpty]_vars

(* ------------------ claims about analyze_folder ------------------------ *)

SummaryFiles == {"_analysis_summary", "_reference_counts"}

\* C24: analyze_folder completes normally for every folder in which it
\* found a .jsonl file: no exception leaves it, whether or not the files
\* hold a parseable record or a counted reference, and when it has returned
\* its two files are written.
C24_SummaryCompletes ==
    tool = "summary" =>
        /\ exc = "none"
        /\ lpc # "exited"
        /\ lpc = "returned" => SummaryFiles \subseteq written

\* it completes exactly when a reference was counted; otherwise the division
\* by n_records = 0 or the sort of the table without columns raises
C24_WhereCounted ==
    tool = "summary" =>
        /\ lpc = "returned" => exc = "none" /\ n_records > 0 /\ DOMAIN ref_counts # {}
                               /\ SummaryFiles \subseteq written
        /\ lpc = "exited" =>
               \/ exc = "ZeroDivisionError" /\ n_records = 0 /\ written = {}
               \/ exc = "KeyError" /\ n_records > 0 /\ DOMAIN ref_counts = {}
                  /\ written = {"_analysis_summary"}

====
